---- MODULE Spec2Model ----
(***************************************************************************)
(* Model of src/parse_trades.py: the price normaliser (parse_price), the   *)
(* row extractor (parse_lots), the range filter (filter_lots_by_price),    *)
(* the descending sort applied in main, and the interactive prompt loop    *)
(* (ask_price).                                                            *)
(*                                                                         *)
(* A Python str is modelled as a sequence of characters; a character is a  *)
(* one-element TLA+ string.  Characters outside ASCII are written by name: *)
(*   "NBSP"   U+00A0 no-break space                                        *)
(*   "CYR_ER" U+0440, "CYR_U" U+0443, "CYR_BE" U+0431  (the letters of the *)
(*            currency token of lines 37-38)                               *)
(*   "AR3"    U+0663 ARABIC-INDIC DIGIT THREE (category Nd)                *)
(***************************************************************************)
EXTENDS Integers, Sequences, FiniteSets, TLC

\* ------------------------------------------------------------------------
\* Bounds of the model
\* ------------------------------------------------------------------------
MaxTok == 3
MaxRows == 2
MaxLots == 3
MaxLines == 3

\* Python's None: as an exception slot, as an Optional[str] and as an
\* Optional[Decimal]
None == "None"
NoneStr == <<"None">>

\* ------------------------------------------------------------------------
\* str primitives
\* ------------------------------------------------------------------------
RECURSIVE Flatten(_)
Flatten(ss) == IF ss = <<>> THEN <<>> ELSE Head(ss) \o Flatten(Tail(ss))

IsPrefix(p, s) == Len(p) <= Len(s) /\ SubSeq(s, 1, Len(p)) = p

\* str.replace(old, new), old non-empty: leftmost non-overlapping occurrences
RECURSIVE Replace(_, _, _)
Replace(s, old, new) ==
    IF s = <<>> THEN <<>>
    ELSE IF IsPrefix(old, s)
         THEN new \o Replace(SubSeq(s, Len(old) + 1, Len(s)), old, new)
         ELSE <<Head(s)>> \o Replace(Tail(s), old, new)

\* characters str.strip() removes (those of them the model's texts contain)
Whitespace == {" ", "NBSP"}

RECURSIVE LStrip(_)
LStrip(s) == IF s # <<>> /\ Head(s) \in Whitespace THEN LStrip(Tail(s)) ELSE s

RECURSIVE RStrip(_)
RStrip(s) ==
    IF s # <<>> /\ s[Len(s)] \in Whitespace
    THEN RStrip(SubSeq(s, 1, Len(s) - 1)) ELSE s

Strip(s) == RStrip(LStrip(s))

\* characters of Unicode category Nd and their values
DecimalDigits == {"0", "1", "2", "3", "4", "5", "6", "7", "8", "9", "AR3"}

DigitVal(c) ==
    CASE c = "0" -> 0 [] c = "1" -> 1 [] c = "2" -> 2 [] c = "3" -> 3
      [] c = "4" -> 4 [] c = "5" -> 5 [] c = "6" -> 6 [] c = "7" -> 7
      [] c = "8" -> 8 [] c = "9" -> 9 [] c = "AR3" -> 3

\* str.isdigit(): non-empty and every character a digit
isdigit(s) == s # <<>> /\ \A k \in 1..Len(s) : s[k] \in DecimalDigits

AllDigits(s) == \A k \in 1..Len(s) : s[k] \in DecimalDigits

RECURSIVE ToNat(_)
ToNat(s) == IF s = <<>> THEN 0
            ELSE 10 * ToNat(SubSeq(s, 1, Len(s) - 1)) + DigitVal(s[Len(s)])

\* index of the first occurrence of character c in s, 0 when absent
RECURSIVE IndexOf(_, _)
IndexOf(s, c) ==
    IF s = <<>> THEN 0
    ELSE IF Head(s) = c THEN 1
    ELSE LET r == IndexOf(Tail(s), c) IN IF r = 0 THEN 0 ELSE r + 1

\* ------------------------------------------------------------------------
\* decimal.Decimal
\* ------------------------------------------------------------------------
Dec(kind, sign, coef, exp) ==
    [kind |-> kind, sign |-> sign, coef |-> coef, exp |-> exp]

NoDecimal == Dec("none", 0, 0, 0)
NoneDec == Dec("None", 0, 0, 0)

\* the text after the optional sign, mantissa and exponent of a numeral
SignOf(s) == IF s # <<>> /\ Head(s) = "-" THEN 1 ELSE 0
Unsigned(s) == IF s # <<>> /\ Head(s) \in {"-", "+"} THEN Tail(s) ELSE s

Mantissa(u) == LET e == IndexOf(u, "e") IN
               IF e = 0 THEN u ELSE SubSeq(u, 1, e - 1)
HasExp(u) == IndexOf(u, "e") # 0
ExpPart(u) == LET e == IndexOf(u, "e") IN SubSeq(u, e + 1, Len(u))

IntPart(m) == LET d == IndexOf(m, ".") IN
              IF d = 0 THEN m ELSE SubSeq(m, 1, d - 1)
FracPart(m) == LET d == IndexOf(m, ".") IN
               IF d = 0 THEN <<>> ELSE SubSeq(m, d + 1, Len(m))

\* (?=\d|\.\d)(\d*)(\.(\d*))?
MantissaOk(m) ==
    /\ AllDigits(IntPart(m)) /\ AllDigits(FracPart(m))
    /\ Len(IntPart(m)) + Len(FracPart(m)) > 0

\* (E[-+]?\d+)?
ExpOk(u) == ~HasExp(u) \/ isdigit(Unsigned(ExpPart(u)))

ExpVal(u) ==
    IF ~HasExp(u) THEN 0
    ELSE IF SignOf(ExpPart(u)) = 1 THEN 0 - ToNat(Unsigned(ExpPart(u)))
    ELSE ToNat(Unsigned(ExpPart(u)))

\* Decimal(str): the numeric-string grammar of the decimal module, without
\* rounding.  Yields NoDecimal where the constructor signals
\* ConversionSyntax (InvalidOperation).
DecimalOf(s) ==
    LET t == SelectSeq(Strip(s), LAMBDA c : c # "_")
        u == Unsigned(t)
        m == Mantissa(u)
    IN  IF u = <<"i", "n", "f">>
           \/ u = <<"i", "n", "f", "i", "n", "i", "t", "y">>
        THEN Dec("Infinity", SignOf(t), 0, 0)
        ELSE IF IsPrefix(<<"n", "a", "n">>, u) /\ AllDigits(SubSeq(u, 4, Len(u)))
        THEN Dec("NaN", SignOf(t), ToNat(SubSeq(u, 4, Len(u))), 0)
        ELSE IF IsPrefix(<<"s", "n", "a", "n">>, u) /\ AllDigits(SubSeq(u, 5, Len(u)))
        THEN Dec("sNaN", SignOf(t), ToNat(SubSeq(u, 5, Len(u))), 0)
        ELSE IF MantissaOk(m) /\ ExpOk(u)
        THEN Dec("finite", SignOf(t), ToNat(IntPart(m) \o FracPart(m)),
                 ExpVal(u) - Len(FracPart(m)))
        ELSE NoDecimal

\* ------------------------------------------------------------------------
\* parse_price
\* ------------------------------------------------------------------------
RUB_DOT == <<"CYR_ER", "CYR_U", "CYR_BE", ".">>
RUB == <<"CYR_ER", "CYR_U", "CYR_BE">>

\* a call's outcome: the value returned, or the exception raised with the
\* text its message carries
Return(v) == [exc |-> None, value |-> v, text |-> <<>>]
Raise(e, t) == [exc |-> e, value |-> NoDecimal, text |-> t]

\* cleaned with the decimal comma dropped instead of turned into a point
cleaned_comma_dropped(text) ==
    Strip(Replace(Replace(Replace(Replace(Replace(text,
        <<"NBSP">>, <<" ">>), RUB_DOT, <<>>), RUB, <<>>),
        <<" ">>, <<>>), <<",">>, <<>>))

cleaned(text) ==
    Strip(Replace(Replace(Replace(Replace(Replace(text,
        <<"NBSP">>, <<" ">>), RUB_DOT, <<>>), RUB, <<>>),
        <<" ">>, <<>>), <<",">>, <<".">>))

parse_price(text) ==
    IF cleaned(text) = <<>> THEN Raise("ValueError", <<>>)
    ELSE IF DecimalOf(cleaned(text)) # NoDecimal
         THEN Return(DecimalOf(cleaned(text)))
         ELSE Raise("ValueError", text)

\* ------------------------------------------------------------------------
\* The parsed document (BeautifulSoup tree), as far as parse_lots looks at it
\* ------------------------------------------------------------------------
\* A <td>: its own text node, the href of an <a href> wrapping that text (or
\* None), and the rows of a table nested inside it, after the text.  A <tr>
\* is the sequence of its <td> children.
Cell(text, href, nested) == [text |-> text, href |-> href, nested |-> nested]

\* row.find_all("td") of a row without nested tables
InnerTds(row) == row

\* row.find_all("td"): every descendant <td>, in document order
find_all_td(row) ==
    Flatten([k \in 1..Len(row) |->
        <<row[k]>> \o Flatten([j \in 1..Len(row[k].nested) |->
                                  InnerTds(row[k].nested[j])])])

\* soup.find_all("tr"): every <tr> of the document, in document order
find_all_tr(d) ==
    Flatten([r \in 1..Len(d) |->
        <<d[r]>> \o Flatten([k \in 1..Len(d[r]) |-> d[r][k].nested])])

\* the stripped, non-empty text nodes below a cell, in document order
OwnStrings(c) == IF Strip(c.text) = <<>> THEN <<>> ELSE <<Strip(c.text)>>

Strings(c) ==
    OwnStrings(c) \o
    Flatten([j \in 1..Len(c.nested) |->
        Flatten([k \in 1..Len(c.nested[j]) |-> OwnStrings(c.nested[j][k])])])

RECURSIVE Join(_, _)
Join(ss, sep) ==
    IF ss = <<>> THEN <<>>
    ELSE IF Len(ss) = 1 THEN Head(ss)
    ELSE Head(ss) \o sep \o Join(Tail(ss), sep)

\* cell.get_text(" ", strip=True)
get_text(c) == Join(Strings(c), <<" ">>)

\* cell.find("a", href=True): the href of the first such descendant, or None
Hrefs(c) ==
    (IF c.href = NoneStr THEN <<>> ELSE <<c.href>>) \o
    Flatten([j \in 1..Len(c.nested) |->
        Flatten([k \in 1..Len(c.nested[j]) |->
            IF c.nested[j][k].href = NoneStr THEN <<>>
            ELSE <<c.nested[j][k].href>>])])

find_a_href(c) == IF Hrefs(c) = <<>> THEN NoneStr ELSE Head(Hrefs(c))

\* ------------------------------------------------------------------------
\* urllib.parse.urljoin(BASE_URL, href)
\* ------------------------------------------------------------------------
BASE_URL == <<"h", "t", "t", "p", "s", ":", "/", "/",
              "t", "o", "r", "g", "i", ".", "o", "r", "g">>

SchemeChars == {"h", "t", "p", "s"}

\* the scheme of a reference: the letters before its first ":", if any
Scheme(u) ==
    LET c == IndexOf(u, ":") IN
    IF c > 1 /\ \A k \in 1..(c - 1) : u[k] \in SchemeChars
    THEN SubSeq(u, 1, c - 1) ELSE <<>>

AfterScheme(u) ==
    IF Scheme(u) = <<>> THEN u ELSE SubSeq(u, Len(Scheme(u)) + 2, Len(u))

\* the authority of a reference that has one ("//" up to the next "/")
HasNetloc(u) == IsPrefix(<<"/", "/">>, AfterScheme(u))

Netloc(u) ==
    LET r == SubSeq(AfterScheme(u), 3, Len(AfterScheme(u)))
        e == IndexOf(r, "/")
    IN  IF e = 0 THEN r ELSE SubSeq(r, 1, e - 1)

\* urlsplit raises ValueError("Invalid IPv6 URL") on an unbalanced bracket
\* (a bracketed host that is no IP literal is rejected as well; the links
\* of the model have none)
InvalidIPv6(u) ==
    /\ HasNetloc(u)
    /\ (IndexOf(Netloc(u), "[") # 0) # (IndexOf(Netloc(u), "]") # 0)

UrlOk(u) == [exc |-> None, url |-> u]
UrlRaise(e) == [exc |-> e, url |-> <<>>]

urljoin(base, u) ==
    IF u = <<>> THEN UrlOk(base)
    ELSE IF InvalidIPv6(u) THEN UrlRaise("ValueError")
    ELSE IF Scheme(u) # <<>> THEN UrlOk(u)
    ELSE IF HasNetloc(u) THEN UrlOk(Scheme(base) \o <<":">> \o u)
    ELSE IF Head(u) \in {"/", "?", "#"} THEN UrlOk(base \o u)
    ELSE UrlOk(base \o <<"/">> \o u)

\* ------------------------------------------------------------------------
\* parse_lots: the body of the loop over the rows
\* ------------------------------------------------------------------------
MinCells == 7

Lot(code, title, price, url) ==
    [code |-> code, title |-> title, price |-> price, url |-> url]

NoLot == Lot(<<>>, <<>>, NoDecimal, NoneStr)

\* IsLotRow with a further test that the second cell has text
IsLotRow_titled(cells) ==
    /\ Len(cells) >= MinCells /\ isdigit(get_text(cells[1]))
    /\ get_text(cells[2]) # <<>>

\* lines 71-77: the row is taken for a lot row
IsLotRow(cells) ==
    Len(cells) >= MinCells /\ isdigit(get_text(cells[1]))

\* line 85
ResolveUrl(name_cell) ==
    IF find_a_href(name_cell) = NoneStr THEN UrlOk(NoneStr)
    ELSE urljoin(BASE_URL, find_a_href(name_cell))

\* what one iteration does with a row: "continue" (row skipped), "append"
\* (with the lot), or "raise" (an exception leaves parse_lots)
Step(kind, lot, exc) == [kind |-> kind, lot |-> lot, exc |-> exc]

row_body(row) ==
    LET cells == find_all_td(row) IN
    IF ~IsLotRow(cells) THEN Step("continue", NoLot, None)
    ELSE IF ResolveUrl(cells[2]).exc # None
         THEN Step("raise", NoLot, ResolveUrl(cells[2]).exc)
    ELSE IF parse_price(get_text(cells[6])).exc = "ValueError"
         THEN Step("continue", NoLot, None)
    ELSE IF parse_price(get_text(cells[6])).exc # None
         THEN Step("raise", NoLot, parse_price(get_text(cells[6])).exc)
    ELSE Step("append",
              Lot(get_text(cells[1]), get_text(cells[2]),
                  parse_price(get_text(cells[6])).value,
                  ResolveUrl(cells[2]).url),
              None)

\* ------------------------------------------------------------------------
\* decimal.Decimal comparison (the operators < and > of lines 117, 119, 203)
\* ------------------------------------------------------------------------
RECURSIVE Pow10(_)
Pow10(n) == IF n <= 0 THEN 1 ELSE 10 * Pow10(n - 1)

\* the value of a finite Decimal in units of 10^e, e no greater than d.exp
Units(d, e) == (IF d.sign = 1 THEN 0 - d.coef ELSE d.coef) * Pow10(d.exp - e)

IsNaN(d) == d.kind \in {"NaN", "sNaN"}

\* an ordering comparison with a NaN operand raises InvalidOperation
Unordered(a, b) == IsNaN(a) \/ IsNaN(b)

\* a < b, for operands that are not NaN
Lt(a, b) ==
    IF a.kind = "Infinity"
    THEN a.sign = 1 /\ ~(b.kind = "Infinity" /\ b.sign = 1)
    ELSE IF b.kind = "Infinity" THEN b.sign = 0
    ELSE LET e == IF a.exp < b.exp THEN a.exp ELSE b.exp
         IN  Units(a, e) < Units(b, e)

\* ------------------------------------------------------------------------
\* filter_lots_by_price
\* ------------------------------------------------------------------------
\* in_range(price) raises: the first comparison it evaluates has a NaN operand
in_range_raises(price, lo, hi) ==
    \/ lo # NoneDec /\ Unordered(price, lo)
    \/ /\ ~(lo # NoneDec /\ Lt(price, lo))
       /\ hi # NoneDec /\ Unordered(price, hi)

in_range(price, lo, hi) ==
    IF lo # NoneDec /\ Lt(price, lo) THEN FALSE
    ELSE IF hi # NoneDec /\ Lt(hi, price) THEN FALSE
    ELSE TRUE

ListOk(ls) == [exc |-> None, lots |-> ls]
ListRaise(e) == [exc |-> e, lots |-> <<>>]

filter_lots_by_price(ls, lo, hi) ==
    IF lo = NoneDec /\ hi = NoneDec THEN ListOk(ls)
    ELSE IF \E k \in 1..Len(ls) : in_range_raises(ls[k].price, lo, hi)
         THEN ListRaise("InvalidOperation")
         ELSE ListOk(SelectSeq(ls, LAMBDA lot : in_range(lot.price, lo, hi)))

\* ------------------------------------------------------------------------
\* sorted(filtered, key=lambda lot: lot["price"], reverse=True)
\* ------------------------------------------------------------------------
\* x goes behind every element that is not smaller than it
RECURSIVE InsertDesc(_, _)
InsertDesc(x, ls) ==
    IF ls = <<>> THEN <<x>>
    ELSE IF Lt(Head(ls).price, x.price) THEN <<x>> \o ls
    ELSE <<Head(ls)>> \o InsertDesc(x, Tail(ls))

RECURSIVE SortDesc(_)
SortDesc(ls) ==
    IF ls = <<>> THEN <<>>
    ELSE InsertDesc(ls[Len(ls)], SortDesc(SubSeq(ls, 1, Len(ls) - 1)))

\* every element of a list of two or more is compared at least once
sorted_desc(ls) ==
    IF Len(ls) >= 2 /\ \E k \in 1..Len(ls) : IsNaN(ls[k].price)
    THEN ListRaise("InvalidOperation")
    ELSE ListOk(SortDesc(ls))

\* ------------------------------------------------------------------------
\* Input texts
\* ------------------------------------------------------------------------
\* pieces a price text is put together from
Tokens ==
    { <<"1">>, <<"0">>, <<"5">>, <<",">>, <<".">>, <<" ">>, <<"NBSP">>,
      RUB_DOT, RUB, <<"-">>, <<"e">>, <<"n", "a", "n">>, <<"a", "b", "c">> }

\* "1 200 000,00 rub." with the currency token of line 37
EXAMPLE ==
    <<"1", " ", "2", "0", "0", " ", "0", "0", "0", ",", "0", "0", " ">>
    \o RUB_DOT

PriceInputs ==
    {EXAMPLE} \cup
    { Flatten(ts) : ts \in UNION { [1..n -> Tokens] : n \in 0..MaxTok } }

T_42 == <<"4", "2">>
T_PAD42 == <<" ", "4", "2", " ">>
T_12A == <<"1", "2", "a">>
T_AR3 == <<"AR3">>
T_LOT_A == <<"L", "o", "t", " ", "A">>
T_X == <<"x">>

H_X == <<"/", "x">>
H_REL == <<"x">>
H_BAD == <<"/", "/", "[">>

\* "1 000,50 rub."
P_GOOD == <<"1", " ", "0", "0", "0", ",", "5", "0", " ">> \o RUB_DOT
P_1000_5 == <<"1", "NBSP", "0", "0", "0", ",", "5">>
P_100 == <<"1", "0", "0">>
P_500 == <<"5", "0", "0", " ">> \o RUB
P_NEG == <<"-", "5">>
P_NAN == <<"n", "a", "n">>
P_ABC == <<"a", "b", "c">>
P_EMPTY == <<>>

\* a row of n plain cells: code, title with link, three fillers, price, ...
MkRow(n, code, title, href, price) ==
    [k \in 1..n |->
        IF k = 1 THEN Cell(code, NoneStr, <<>>)
        ELSE IF k = 2 THEN Cell(title, href, <<>>)
        ELSE IF k = 6 THEN Cell(price, NoneStr, <<>>)
        ELSE Cell(T_X, NoneStr, <<>>)]

\* a row of two cells, the second holding a table of one row of six cells
NestedShort ==
    << Cell(T_42, NoneStr, <<>>),
       Cell(T_LOT_A, H_X,
            << [k \in 1..6 |-> Cell(IF k = 4 THEN P_100 ELSE T_X, NoneStr, <<>>)] >>) >>

\* a row of seven cells, the second holding a table of one row of four cells
NestedWide ==
    [k \in 1..7 |->
        IF k = 2
        THEN Cell(T_LOT_A, H_X,
                  << [j \in 1..4 |-> Cell(IF j = 4 THEN P_500 ELSE T_X, NoneStr, <<>>)] >>)
        ELSE MkRow(7, T_42, T_LOT_A, H_X, P_GOOD)[k]]

Rows ==
    { MkRow(n, c, T_LOT_A, H_X, q) :
        n \in {6, 7}, c \in {T_42, T_12A}, q \in {P_GOOD, P_ABC} }
    \cup { MkRow(7, T_42, th[1], th[2], P_100) :
        th \in { <<<<>>, NoneStr>>, <<T_LOT_A, NoneStr>>,
                 <<T_LOT_A, H_BAD>>, <<T_LOT_A, H_REL>> } }
    \cup { MkRow(7, c, T_LOT_A, H_X, P_500) : c \in {T_AR3, T_PAD42} }
    \cup { MkRow(7, T_42, T_LOT_A, H_X, q) : q \in {P_NEG, P_NAN, P_EMPTY} }
    \cup { MkRow(8, T_42, T_LOT_A, H_X, P_1000_5), NestedShort, NestedWide }

Docs == UNION { [1..n -> Rows] : n \in 0..MaxRows }

\* the prices parse_price returns for the price texts of the rows, and the
\* bounds it returns for the texts of --min-price / --max-price and ask_price
PriceTexts == {P_GOOD, P_1000_5, P_100, P_500, P_NEG, P_NAN}
Prices == { parse_price(t).value : t \in PriceTexts }
BoundTexts == {P_100, P_500, P_NAN}
PriceBounds == {NoneDec} \cup { parse_price(t).value : t \in BoundTexts }

CodeOf(k) == << CASE k = 1 -> "1" [] k = 2 -> "2" [] k = 3 -> "3"
                  [] k = 4 -> "4" [] OTHER -> "5" >>

LotLists ==
    { [k \in 1..n |-> Lot(CodeOf(k), T_LOT_A, ps[k], NoneStr)] :
        n \in 0..MaxLots, ps \in [1..MaxLots -> Prices] }

\* lines typed at the prompt
LineTexts == { <<>>, <<" ">>, <<"NBSP">>, P_ABC, RUB_DOT, P_NAN,
               <<" ", "5", " ">>, P_GOOD }
LineSeqs == UNION { [1..n -> LineTexts] : n \in 0..MaxLines }

\* ------------------------------------------------------------------------
\* State
\* ------------------------------------------------------------------------
VARIABLES
    text, result, pcP,                    \* a call of parse_price
    doc, i, lots, src_row, err, pcL,      \* a call of parse_lots
    flots, min_price, max_price,          \* main, lines 200-203
    filtered, sorted_lots, pcM,
    lines, consumed, prompts, ask_ret, pcA   \* a call of ask_price

priceVars == <<text, result, pcP>>
lotsVars == <<doc, i, lots, src_row, err, pcL>>
mainVars == <<flots, min_price, max_price, filtered, sorted_lots, pcM>>
askVars == <<lines, consumed, prompts, ask_ret, pcA>>
vars == <<priceVars, lotsVars, mainVars, askVars>>

IdlePrice == text = <<>> /\ result = Return(NoDecimal) /\ pcP = "idle"
IdleLots ==
    /\ doc = <<>> /\ i = 1 /\ lots = <<>> /\ src_row = <<>>
    /\ err = None /\ pcL = "idle"
IdleMain ==
    /\ flots = <<>> /\ min_price = NoneDec /\ max_price = NoneDec
    /\ filtered = <<>> /\ sorted_lots = <<>> /\ pcM = "idle"
IdleAsk ==
    /\ lines = <<>> /\ consumed = <<>> /\ prompts = 0
    /\ ask_ret = Return(NoDecimal) /\ pcA = "idle"

\* ------------------------------------------------------------------------
\* parse_price(text)
\* ------------------------------------------------------------------------
InitPrice ==
    /\ text \in PriceInputs /\ result = Return(NoDecimal) /\ pcP = "call"
    /\ IdleLots /\ IdleMain /\ IdleAsk

call_parse_price ==
    /\ pcP = "call"
    /\ result' = parse_price(text)
    /\ pcP' = IF parse_price(text).exc = None THEN "returned" ELSE "raised"
    /\ UNCHANGED <<text, lotsVars, mainVars, askVars>>

NextPrice == call_parse_price

SpecPrice == InitPrice /\ [][NextPrice]_vars

\* ------------------------------------------------------------------------
\* parse_lots(html): one step per iteration of the loop of line 70
\* ------------------------------------------------------------------------
InitLots ==
    /\ doc \in Docs /\ i = 1 /\ lots = <<>> /\ src_row = <<>>
    /\ err = None /\ pcL = "loop"
    /\ IdlePrice /\ IdleMain /\ IdleAsk

\* lines 72-73, 76-77, 91-93: continue
row_continue ==
    /\ pcL = "loop" /\ i <= Len(find_all_tr(doc))
    /\ row_body(find_all_tr(doc)[i]).kind = "continue"
    /\ i' = i + 1
    /\ UNCHANGED <<doc, lots, src_row, err, pcL, priceVars, mainVars, askVars>>

\* lines 95-102: lots.append
row_append ==
    /\ pcL = "loop" /\ i <= Len(find_all_tr(doc))
    /\ row_body(find_all_tr(doc)[i]).kind = "append"
    /\ lots' = Append(lots, row_body(find_all_tr(doc)[i]).lot)
    /\ src_row' = Append(src_row, i)
    /\ i' = i + 1
    /\ UNCHANGED <<doc, err, pcL, priceVars, mainVars, askVars>>

\* an exception nothing in parse_lots catches
row_raise ==
    /\ pcL = "loop" /\ i <= Len(find_all_tr(doc))
    /\ row_body(find_all_tr(doc)[i]).kind = "raise"
    /\ err' = row_body(find_all_tr(doc)[i]).exc
    /\ pcL' = "raised"
    /\ UNCHANGED <<doc, i, lots, src_row, priceVars, mainVars, askVars>>

\* line 104
return_lots ==
    /\ pcL = "loop" /\ i > Len(find_all_tr(doc))
    /\ pcL' = "returned"
    /\ UNCHANGED <<doc, i, lots, src_row, err, priceVars, mainVars, askVars>>

NextLots == row_continue \/ row_append \/ row_raise \/ return_lots

SpecLots == InitLots /\ [][NextLots]_vars

\* ------------------------------------------------------------------------
\* main, lines 200-203: filter, then sort
\* ------------------------------------------------------------------------
InitMain ==
    /\ flots \in LotLists
    /\ min_price \in PriceBounds /\ max_price \in PriceBounds
    /\ filtered = <<>> /\ sorted_lots = <<>> /\ pcM = "filter"
    /\ IdlePrice /\ IdleLots /\ IdleAsk

\* line 200
call_filter ==
    /\ pcM = "filter"
    /\ filtered' = filter_lots_by_price(flots, min_price, max_price).lots
    /\ pcM' = IF filter_lots_by_price(flots, min_price, max_price).exc = None
              THEN "sort" ELSE "filter_raised"
    /\ UNCHANGED <<flots, min_price, max_price, sorted_lots,
                   priceVars, lotsVars, askVars>>

\* line 203
call_sorted ==
    /\ pcM = "sort"
    /\ sorted_lots' = sorted_desc(filtered).lots
    /\ pcM' = IF sorted_desc(filtered).exc = None THEN "done" ELSE "sort_raised"
    /\ UNCHANGED <<flots, min_price, max_price, filtered,
                   priceVars, lotsVars, askVars>>

NextMain == call_filter \/ call_sorted

SpecMain == InitMain /\ [][NextMain]_vars

\* ------------------------------------------------------------------------
\* ask_price(prompt): one step per iteration of the loop of line 128
\* ------------------------------------------------------------------------
InitAsk ==
    /\ lines \in LineSeqs /\ consumed = <<>> /\ prompts = 0
    /\ ask_ret = Return(NoDecimal) /\ pcA = "prompt"
    /\ IdlePrice /\ IdleLots /\ IdleMain

\* lines 129-131: a line that is empty once stripped
ask_blank ==
    /\ pcA = "prompt" /\ lines # <<>>
    /\ Strip(Head(lines)) = <<>>
    /\ ask_ret' = Return(NoneDec)
    /\ pcA' = "returned"
    /\ lines' = Tail(lines) /\ consumed' = Append(consumed, Head(lines))
    /\ prompts' = prompts + 1
    /\ UNCHANGED <<priceVars, lotsVars, mainVars>>

\* lines 132-133
ask_parsed ==
    /\ pcA = "prompt" /\ lines # <<>>
    /\ Strip(Head(lines)) # <<>>
    /\ parse_price(Strip(Head(lines))).exc = None
    /\ ask_ret' = Return(parse_price(Strip(Head(lines))).value)
    /\ pcA' = "returned"
    /\ lines' = Tail(lines) /\ consumed' = Append(consumed, Head(lines))
    /\ prompts' = prompts + 1
    /\ UNCHANGED <<priceVars, lotsVars, mainVars>>

\* ask_retry giving up at the first unparsable line, returning None
ask_retry_returns ==
    /\ pcA = "prompt" /\ lines # <<>>
    /\ Strip(Head(lines)) # <<>>
    /\ parse_price(Strip(Head(lines))).exc = "ValueError"
    /\ ask_ret' = Return(NoneDec)
    /\ pcA' = "returned"
    /\ lines' = Tail(lines) /\ consumed' = Append(consumed, Head(lines))
    /\ prompts' = prompts + 1
    /\ UNCHANGED <<priceVars, lotsVars, mainVars>>

\* lines 134-135: the message is printed and the loop prompts again
ask_retry ==
    /\ pcA = "prompt" /\ lines # <<>>
    /\ Strip(Head(lines)) # <<>>
    /\ parse_price(Strip(Head(lines))).exc = "ValueError"
    /\ lines' = Tail(lines) /\ consumed' = Append(consumed, Head(lines))
    /\ prompts' = prompts + 1
    /\ UNCHANGED <<ask_ret, pcA, priceVars, lotsVars, mainVars>>

\* line 129: input() at the end of the input raises EOFError
ask_eof ==
    /\ pcA = "prompt" /\ lines = <<>>
    /\ ask_ret' = Raise("EOFError", <<>>)
    /\ pcA' = "raised"
    /\ prompts' = prompts + 1
    /\ UNCHANGED <<lines, consumed, priceVars, lotsVars, mainVars>>

NextAsk == ask_blank \/ ask_parsed \/ ask_retry \/ ask_eof

SpecAsk == InitAsk /\ [][NextAsk]_vars

\* ========================================================================
\* Properties
\* ========================================================================
AsciiDigits == {"0", "1", "2", "3", "4", "5", "6", "7", "8", "9"}

\* the rows of the document and, for the k-th lot, the row it was built from
Trs == find_all_tr(doc)
RowOfLot(k) == Trs[src_row[k]]

\* a Decimal that is a number not below zero
NonNegative(d) == d.kind = "finite" /\ (d.sign = 0 \/ d.coef = 0)

\* C1: every Lot parse_lots has produced has a code that is a non-empty
\* string of the ASCII digits 0-9 and a price that is a number >= 0 (never
\* negative, never NaN or Infinity).
C1_CodeAsciiPriceNonNegative ==
    \A k \in 1..Len(lots) :
        /\ lots[k].code # <<>>
        /\ \A c \in 1..Len(lots[k].code) : lots[k].code[c] \in AsciiDigits
        /\ NonNegative(lots[k].price)

\* C2: a row with fewer than 7 cell children is never represented by a Lot,
\* also when it has further cells as deeper descendants (a nested table).
C2_ShortRowNeverALot ==
    \A k \in 1..Len(lots) : Len(RowOfLot(k)) >= MinCells

\* C3: parse_lots never fails: a ParseError of the price normaliser for the
\* sixth cell of a row is caught, that row contributes no Lot, the remaining
\* rows are still processed and no error reaches the caller.
C3_NeverFails ==
    /\ pcL # "raised" /\ err = None
    /\ \A k \in 1..Len(lots) :
          parse_price(get_text(find_all_td(RowOfLot(k))[6])).exc = None
    /\ pcL = "returned" => i = Len(Trs) + 1

\* C4: parse_lots returns, in document order, exactly one Lot for each row
\* with at least 7 cells and a digit-only trimmed first cell whose sixth-cell
\* text the price normaliser accepts, and no other Lot; the Lot has the first
\* cell's digit string as code, the normalised sixth cell as price and the
\* second cell's hyperlink target resolved against BASE_URL as url (absent
\* when the second cell has no hyperlink).
QualifyingRows ==
    SelectSeq(Trs, LAMBDA row :
        /\ Len(row) >= MinCells
        /\ isdigit(get_text(row[1]))
        /\ parse_price(get_text(row[6])).exc = None)

LotOfRow(row) ==
    [code |-> get_text(row[1]),
     price |-> parse_price(get_text(row[6])).value,
     url |-> IF find_a_href(row[2]) = NoneStr THEN NoneStr
             ELSE urljoin(BASE_URL, find_a_href(row[2])).url]

C4_ExactlyTheQualifyingRows ==
    pcL \in {"returned", "raised"} =>
        /\ pcL = "returned"
        /\ [k \in 1..Len(lots) |->
               [code |-> lots[k].code, price |-> lots[k].price,
                url |-> lots[k].url]]
           = [k \in 1..Len(QualifyingRows) |-> LotOfRow(QualifyingRows[k])]

\* ------------------------------------------------------------------------
\* the number a price text denotes, read off the text itself: its digits in
\* order, the count of digits behind the decimal separator, the sign and
\* the exponent
SourceHead(t) == Mantissa(t)
SourceTail(t) == IF HasExp(t) THEN ExpPart(t) ELSE <<>>

DigitsIn(t) == SelectSeq(t, LAMBDA c : c \in DecimalDigits)

\* positions of a "," or "." that is not the point of a currency token
Separators(t) ==
    { k \in 1..Len(t) :
        /\ t[k] \in {",", "."}
        /\ ~(k >= 4 /\ SubSeq(t, k - 3, k) = RUB_DOT) }

FracDigits(t) ==
    IF Separators(t) = {} THEN 0
    ELSE LET k == CHOOSE x \in Separators(t) : \A y \in Separators(t) : y <= x
         IN  Len(DigitsIn(SubSeq(t, k + 1, Len(t))))

SourceDecimal(t) ==
    Dec("finite",
        IF IndexOf(SourceHead(t), "-") # 0 THEN 1 ELSE 0,
        ToNat(DigitsIn(SourceHead(t))),
        (IF IndexOf(SourceTail(t), "-") # 0
         THEN 0 - ToNat(DigitsIn(SourceTail(t)))
         ELSE ToNat(DigitsIn(SourceTail(t)))) - FracDigits(SourceHead(t)))

\* C5: parse_price returns the exact decimal value of its text once the
\* no-break spaces, the currency token and the spaces are gone and the
\* decimal comma is a point: no rounding, every digit of the source text is
\* kept; "1 200 000,00 rub." yields 1200000.00.
C5_ExactValue ==
    /\ (pcP = "returned" /\ result.value.kind = "finite")
          => result.value = SourceDecimal(text)
    /\ (pcP # "call" /\ text = EXAMPLE)
          => /\ pcP = "returned"
             /\ result.value = Dec("finite", 0, 120000000, 0 - 2)

C5_Witness ==
    /\ pcP = "returned" /\ text = EXAMPLE
    /\ result.value = Dec("finite", 0, 120000000, 0 - 2)

\* a decimal numeral: optional sign, digits with an optional point, optional
\* exponent
IsDecimalNumeral(s) ==
    MantissaOk(Mantissa(Unsigned(s))) /\ ExpOk(Unsigned(s))

\* C6: parse_price fails with ParseError (ValueError) for every text whose
\* cleaned form is empty or is not a valid decimal numeral ("" and "abc"
\* among them), the failure for an invalid numeral carries the original
\* text, and no other kind of error leaves the function.
C6_ParseErrorForNonNumerals ==
    pcP # "call" =>
        /\ result.exc \in {None, "ValueError"}
        /\ (cleaned(text) = <<>> \/ ~IsDecimalNumeral(cleaned(text)))
              => pcP = "raised" /\ result.exc = "ValueError"
        /\ (cleaned(text) # <<>> /\ ~IsDecimalNumeral(cleaned(text)))
              => result.text = text
        /\ text \in {<<>>, P_ABC} => result.exc = "ValueError"

\* ------------------------------------------------------------------------
\* min <= p <= max, an absent bound not constraining
Le(a, b) == ~Unordered(a, b) /\ ~Lt(b, a)

WithinBounds(lot) ==
    /\ min_price = NoneDec \/ Le(min_price, lot.price)
    /\ max_price = NoneDec \/ Le(lot.price, max_price)

\* C7: filter_lots_by_price returns exactly the lots of its input whose price
\* p satisfies min <= p <= max (both inclusive, an absent bound unbounded),
\* in input order; with both bounds absent it returns the input sequence.
C7_FilterExact ==
    pcM \notin {"filter", "idle"} =>
        /\ pcM # "filter_raised"
        /\ filtered = SelectSeq(flots, WithinBounds)
        /\ (min_price = NoneDec /\ max_price = NoneDec) => filtered = flots

\* C8: the sort of line 203 returns a permutation of its input ordered by
\* price from highest to lowest, and is stable: lots of equal price keep
\* their relative input order.
PositionIn(ls, lot) == CHOOSE k \in 1..Len(ls) : ls[k] = lot

C8_SortStableDescending ==
    pcM \in {"done", "sort_raised"} =>
        /\ pcM = "done"
        /\ Len(sorted_lots) = Len(filtered)
        /\ \A k \in 1..Len(filtered) :
              \E j \in 1..Len(sorted_lots) : sorted_lots[j] = filtered[k]
        /\ \A j, k \in 1..Len(sorted_lots) :
              j < k => /\ ~Lt(sorted_lots[j].price, sorted_lots[k].price)
                       /\ ~Lt(sorted_lots[k].price, sorted_lots[j].price)
                            => PositionIn(filtered, sorted_lots[j])
                               < PositionIn(filtered, sorted_lots[k])

Acceptable(line) ==
    Strip(line) = <<>> \/ parse_price(Strip(line)).exc = None

\* C10: ask_price returns only at the first line that is blank after
\* trimming (returning None) or accepted by parse_price (returning its
\* value); every earlier unparsable line causes exactly one more prompt, no
\* ParseError leaves the function, and it returns iff such a line is entered.
C10_ReturnsAtFirstAcceptableLine ==
    /\ pcA # "idle" =>
          prompts = Len(consumed) + (IF pcA = "raised" THEN 1 ELSE 0)
    /\ \A k \in 1..Len(consumed) :
          Acceptable(consumed[k]) <=> (pcA = "returned" /\ k = Len(consumed))
    /\ pcA = "returned" =>
          /\ consumed # <<>>
          /\ ask_ret.exc = None
          /\ ask_ret.value =
                IF Strip(consumed[Len(consumed)]) = <<>> THEN NoneDec
                ELSE parse_price(Strip(consumed[Len(consumed)])).value
    /\ pcA = "raised" => ask_ret.exc = "EOFError" /\ lines = <<>>
    /\ (pcA = "prompt" /\ lines # <<>> /\ ~Acceptable(Head(lines)))
          => parse_price(Strip(Head(lines))).exc = "ValueError"
    /\ pcA \in {"returned", "raised"} =>
          (pcA = "returned"
             <=> \E k \in 1..Len(consumed \o lines) :
                     Acceptable((consumed \o lines)[k]))

C10_Witness ==
    /\ pcA = "returned" /\ Len(consumed) >= 2
    /\ ask_ret.value # NoneDec

====
